---- MODULE Spec2Model ----
(***************************************************************************)
(* YAMLEditor (src/src/yaml_editor.py): a form editor over a list of paper *)
(* records kept in memory (self.data) and in a YAML file.                  *)
(*                                                                         *)
(* Strings are sequences of character codes, so that Python's string       *)
(* comparison, lower(), strip() and split() are computed, not assumed.     *)
(* A field value is [t |-> type, s |-> text]: t = "absent" (key missing),  *)
(* "none" (None), "str", "int" or "date" (a non-string YAML scalar whose   *)
(* str() is s).  current_index is 0-based as in the source.                *)
(***************************************************************************)
EXTENDS Integers, Sequences, FiniteSets, TLC

\* ---------------------------------------------------------------- bounds
MaxLen == 2
MaxOps == 2

\* --------------------------------------------------------------- strings
S_empty == <<>>
S_blank == <<32>>
S_a == <<97>>
S_b == <<98>>
S_c == <<99>>
S_n == <<110>>
S_m == <<109>>
S_9999 == <<57, 57, 57, 57>>
S_z == <<122>>
S_u == <<117>>
S_2023_05_01 == <<50, 48, 50, 51, 45, 48, 53, 45, 48, 49>>
S_2024_01_01 == <<50, 48, 50, 52, 45, 48, 49, 45, 48, 49>>
S_2023 == <<50, 48, 50, 51>>
S_arxiv == <<97, 114, 120, 105, 118>>
S_estimated == <<101, 115, 116, 105, 109, 97, 116, 101, 100>>
S_unknown == <<117, 110, 107, 110, 111, 119, 110>>
S_Beta == <<66, 101, 116, 97>>
S_alpha == <<97, 108, 112, 104, 97>>
S_Zeta == <<90, 101, 116, 97>>
S_Ann_Lee_Bob_Ray == <<65, 110, 110, 32, 76, 101, 101, 44, 32, 66, 111, 98, 32, 82, 97, 121>>
S_Cy_Kim == <<67, 121, 32, 75, 105, 109>>
S_Al_Abe == <<65, 108, 32, 65, 98, 101>>
S_Code == <<67, 111, 100, 101>>
S_Project == <<80, 114, 111, 106, 101, 99, 116>>
S_Video == <<86, 105, 100, 101, 111>>
S_Misc == <<77, 105, 115, 99>>
S_Foo == <<70, 111, 111>>

\* Python's < on str: lexicographic on code points, a proper prefix is smaller.
RECURSIVE StrLess(_, _)
StrLess(a, b) ==
    IF b = <<>> THEN FALSE
    ELSE IF a = <<>> THEN TRUE
    ELSE IF a[1] # b[1] THEN a[1] < b[1]
    ELSE StrLess(Tail(a), Tail(b))

\* str.lower() on ASCII letters.
Lower(s) == [i \in 1..Len(s) |-> IF s[i] >= 65 /\ s[i] <= 90 THEN s[i] + 32 ELSE s[i]]

\* str.strip(): drop leading and trailing blanks (code 32).
Strip(s) ==
    LET nb == {i \in 1..Len(s) : s[i] # 32}
    IN IF nb = {} THEN <<>>
       ELSE LET lo == CHOOSE i \in nb : \A j \in nb : i <= j
                hi == CHOOSE i \in nb : \A j \in nb : j <= i
            IN SubSeq(s, lo, hi)

\* s.split(',')[0]: the text before the first comma (code 44).
BeforeComma(s) ==
    LET cs == {i \in 1..Len(s) : s[i] = 44}
    IN IF cs = {} THEN s
       ELSE SubSeq(s, 1, (CHOOSE i \in cs : \A j \in cs : i <= j) - 1)

\* s.split()[-1] for a stripped, non-empty s: the last blank-separated token.
LastToken(s) ==
    LET bs == {i \in 1..Len(s) : s[i] = 32}
    IN IF bs = {} THEN s
       ELSE SubSeq(s, (CHOOSE i \in bs : \A j \in bs : j <= i) + 1, Len(s))

\* ---------------------------------------------------------------- values
Absent == [t |-> "absent", s |-> <<>>]
None == [t |-> "none", s |-> <<>>]
Str(x) == [t |-> "str", s |-> x]
IntV(x) == [t |-> "int", s |-> x]
DateV(x) == [t |-> "date", s |-> x]

NoTags == [t |-> "absent", l |-> <<>>]
Tags(l) == [t |-> "list", l |-> l]

\* dict.get(key, default) on a field value
Get(v, default) == IF v.t = "absent" THEN default ELSE v

\* ------------------------------------------------------------- sort keys
\* source_priority.get(date_source, 2)
source_priority(ds) ==
    IF ds.t # "str" THEN 2
    ELSE IF ds.s = S_arxiv THEN 0
    ELSE IF ds.s = S_estimated THEN 1
    ELSE 2

\* last name of the first author, lower-cased (lines 61-69)
last_name(x) ==
    LET authors == Get(x.authors, Str(S_empty))
    IN IF authors.t = "str" /\ authors.s # <<>>
       THEN LET first_author == Strip(BeforeComma(authors.s))
            IN IF first_author # <<>> THEN Lower(LastToken(first_author)) ELSE S_z
       ELSE S_z

\* YAMLEditor.safe_sort_key: (pub_date, priority, last_name, title)
safe_sort_key(x) ==
    LET pd == Get(x.publication_date, Str(S_9999))
        pub_date == IF pd.t # "str" THEN S_9999 ELSE pd.s
        tt == Get(x.title, Str(S_empty))
        title == IF tt.t # "str" THEN S_z ELSE Lower(tt.s)
    IN <<pub_date, source_priority(Get(x.date_source, Str(S_unknown))), last_name(x), title>>

\* YAMLUpdater.safe_sort_key (src/fix_date.py is not in the sources): the
\* Ordering Policy as the specification words it; a missing title, like a
\* non-string one, uses "z".
updater_safe_sort_key(x) ==
    LET pd == Get(x.publication_date, Str(S_9999))
        pub_date == IF pd.t # "str" THEN S_9999 ELSE pd.s
        title == IF x.title.t # "str" THEN S_z ELSE Lower(x.title.s)
    IN <<pub_date, source_priority(Get(x.date_source, Str(S_unknown))), last_name(x), title>>

\* Python's < on the key tuples
KeyLess(k1, k2) ==
    IF k1[1] # k2[1] THEN StrLess(k1[1], k2[1])
    ELSE IF k1[2] # k2[2] THEN k1[2] < k2[2]
    ELSE IF k1[3] # k2[3] THEN StrLess(k1[3], k2[3])
    ELSE StrLess(k1[4], k2[4])

\* list.sort(key=..., reverse=True): descending and stable (equal keys keep
\* their original relative order).  K[i] is the key of the i-th element;
\* the result is the permutation of indices.
RECURSIVE SortPerm(_, _)
SortPerm(K, n) ==
    IF n = 0 THEN <<>>
    ELSE LET p == SortPerm(K, n - 1)
             smaller == {j \in 1..Len(p) : KeyLess(K[p[j]], K[n])}
             pos == IF smaller = {} THEN Len(p) + 1
                    ELSE CHOOSE j \in smaller : \A k \in smaller : j <= k
         IN SubSeq(p, 1, pos - 1) \o <<n>> \o SubSeq(p, pos, Len(p))

SortReverse(d, K) == LET p == SortPerm(K, Len(d)) IN [j \in 1..Len(d) |-> d[p[j]]]

\* self.data.sort(key=self.safe_sort_key, reverse=True)
sort_editor(d) == SortReverse(d, [i \in 1..Len(d) |-> safe_sort_key(d[i])])

\* data.sort(key=self.yaml_updater.safe_sort_key, reverse=True)
sort_updater(d) == SortReverse(d, [i \in 1..Len(d) |-> updater_safe_sort_key(d[i])])

\* --------------------------------------------------------------- records
\* the form without the read-only publication_date field
FieldNames_nodate == {"id", "title", "authors", "year", "abstract"}

\* the keys of self.fields (lines 186-193 and 215)
FieldNames == {"id", "title", "authors", "year", "publication_date", "abstract"}
UrlNames == {"project_page", "paper", "code", "video"}

\* four of the tags of self.available_tags (lines 32-42)
available_tags == {S_Code, S_Project, S_Video, S_Misc}

Rec(id, title, authors, year, pd, ds, code, tags) ==
    [id |-> id, title |-> title, authors |-> authors, year |-> year,
     publication_date |-> pd, date_source |-> ds,
     project_page |-> Absent, paper |-> Absent, code |-> code, video |-> Absent,
     abstract |-> Absent, tags |-> tags]

\* Sample records of the backing file.
PaperA == Rec(Str(S_a), Str(S_Beta), Str(S_Ann_Lee_Bob_Ray), IntV(S_2023),
              Str(S_2023_05_01), Str(S_arxiv), Str(S_u), Tags(<<S_Video, S_Code>>))
PaperB == [Rec(Str(S_b), None, Str(S_Cy_Kim), Str(S_2023),
               Str(S_2023_05_01), Str(S_estimated), None, Tags(<<>>))
           EXCEPT !.project_page = None, !.paper = None, !.video = None, !.abstract = None]
PaperC == Rec(Str(S_c), Absent, Absent, Absent, Absent, Absent, Absent, NoTags)
Pool == {PaperA, PaperB, PaperC}

\* Records the add dialog can append (fresh ids).
NewN == Rec(Str(S_n), Str(S_Zeta), Str(S_Al_Abe), Absent, Absent, Absent, Absent, Tags(<<>>))
NewM == Rec(Str(S_m), Str(S_alpha), Str(S_blank), Absent,
            DateV(S_2024_01_01), Str(S_unknown), Absent, Tags(<<S_Foo>>))
NewPool == {NewN, NewM}

\* all lists of 1..n distinct records of P
RECURSIVE ListsOf(_, _)
ListsOf(P, n) ==
    IF n = 0 THEN {<<>>}
    ELSE LET shorter == ListsOf(P, n - 1)
         IN shorter \cup {Append(l, r) : l \in {x \in shorter : Len(x) = n - 1},
                                         r \in P} 

NoRepeat(l) == \A i, j \in 1..Len(l) : i # j => l[i] # l[j]
\* the papers that have a thumbnail file
Thumbnailed == {S_a, S_c}

InitialFiles == {l \in ListsOf(Pool, MaxLen) : Len(l) >= 1 /\ NoRepeat(l)}

Ids(d) == {d[i].id : i \in 1..Len(d)}
UniqueIds(d) == \A i, j \in 1..Len(d) : i # j => d[i].id # d[j].id

\* ----------------------------------------------------------------- state
VARIABLES
    file,           \* records of awesome_3dgs_papers.yaml, in file order
    thumbnails,     \* names (ids) of the files under assets/thumbnails
    data,           \* self.data
    current_index,  \* self.current_index (0-based)
    fields,         \* text of self.fields[...]
    url_widgets,    \* text of self.url_widgets[...].url_input
    tag_buttons,    \* the checked tag buttons
    window_open,    \* the editor window exists
    message,        \* "critical" when the handler showed QMessageBox.critical
    lastOp,         \* the handler that ran last
    outcome,        \* how it went: "ok", "declined", "unlink_failed",
                    \* "write_failed", "paper_failed", "no_match"
    entry,          \* the handler's local `entry` / `new_entry`
    old_index,      \* current_index when the handler started
    ops             \* number of handlers run

vars == <<file, thumbnails, data, current_index, fields, url_widgets,
          tag_buttons, window_open, message, lastOp, outcome,
          entry, old_index, ops>>

At(d, i) == d[i + 1]
InRange(d, i) == i >= 0 /\ i < Len(d)

\* the position counted from 1 instead of enumerate's 0
IndexOfId_onebased(d, id) ==
    LET m == {i \in 1..Len(d) : d[i].id = id}
    IN IF m = {} THEN -1 ELSE CHOOSE i \in m : \A j \in m : i <= j

\* next(i for i, e in enumerate(d) if e['id'] == id): first match, 0-based;
\* -1 stands for StopIteration.
IndexOfId(d, id) ==
    LET m == {i \in 1..Len(d) : d[i].id = id}
    IN IF m = {} THEN -1 ELSE (CHOOSE i \in m : \A j \in m : i <= j) - 1

\* str(value) if value is not None else ''   (value = entry.get(field, ''))
WidgetText(v) == IF v.t \in {"absent", "none"} THEN S_empty ELSE v.s

\* if value.strip() == '': value = None
FieldValue(text) == IF Strip(text) = <<>> THEN None ELSE Str(text)

TagSet(tv) == {tv.l[i] : i \in 1..Len(tv.l)}

\* sorted(tags)
RECURSIVE sorted(_)
sorted(T) ==
    IF T = {} THEN <<>>
    ELSE LET m == CHOOSE x \in T : \A y \in T : ~StrLess(y, x)
         IN <<m>> \o sorted(T \ {m})

\* show_current_entry: the widgets' contents for record e
shown_fields(e) == [f \in FieldNames |-> WidgetText(e[f])]
shown_urls(e) == [f \in UrlNames |-> WidgetText(e[f])]
shown_tags(e) == {tag \in available_tags : tag \in TagSet(e.tags)}

\* YAMLUpdater.process_paper (src/fix_date.py is not in the sources): on
\* success fills a missing publication_date and the date_source; on failure
\* returns the record as it was.
process_paper(e, success, date, source) ==
    IF success /\ e.publication_date.t \in {"absent", "none"}
    THEN [e EXCEPT !.publication_date = Str(date), !.date_source = Str(source)]
    ELSE e

\* auto_save lines 257-276: the record rebuilt from the widgets
widgets_entry(e, F, U, T) ==
    [k \in DOMAIN e |->
        IF k \in FieldNames THEN FieldValue(F[k])
        ELSE IF k \in UrlNames THEN FieldValue(U[k])
        ELSE IF k = "tags" THEN Tags(sorted(T))
        ELSE e[k]]

TypeOK ==
    /\ window_open \in BOOLEAN
    /\ ops \in 0..MaxOps

Init ==
    /\ file \in InitialFiles
    /\ thumbnails = {file[i].id.s : i \in 1..Len(file)} \cap Thumbnailed
    /\ data = sort_editor(file)
    /\ current_index = 0
    /\ fields = shown_fields(data[1])
    /\ url_widgets = shown_urls(data[1])
    /\ tag_buttons = shown_tags(data[1])
    /\ window_open = TRUE
    /\ message = ""
    /\ lastOp = "load_yaml"
    /\ outcome = "ok"
    /\ entry = data[1]
    /\ old_index = 0
    /\ ops = 0

\* ------------------------------------------------------------ operations
PaperResults == [success : BOOLEAN, date : {S_2024_01_01}, source : {S_arxiv}]
NoPaper == [success |-> FALSE, date |-> S_empty, source |-> S_empty]

\* An exception no handler catches (IndexError on self.data[...]) or
\* sys.exit(1) in load_yaml ends the session.
Terminate(op) ==
    /\ window_open' = FALSE
    /\ lastOp' = op
    /\ outcome' = "ok"
    /\ message' = ""
    /\ old_index' = current_index
    /\ ops' = ops + 1
    /\ UNCHANGED <<file, thumbnails, data, current_index, fields,
                   url_widgets, tag_buttons, entry>>

\* show_current_entry on list d at index i
Show(d, i) ==
    /\ fields' = shown_fields(At(d, i))
    /\ url_widgets' = shown_urls(At(d, i))
    /\ tag_buttons' = shown_tags(At(d, i))

\* auto_save (lines 253-301) with the widgets holding F, U, T.  A write that
\* fails is open(..., 'w') raising: the file keeps its content.
auto_save(op, F, U, T) ==
    /\ InRange(data, current_index)
    /\ \E wrote \in BOOLEAN :
         LET e1 == widgets_entry(At(data, current_index), F, U, T)
             \* lines 279-282: if 'publication_date' not in entry
             asked == e1.publication_date.t = "absent"
         IN \E pp \in IF asked THEN PaperResults ELSE {NoPaper} :
              LET e == IF asked THEN process_paper(e1, pp.success, pp.date, pp.source)
                       ELSE e1
                  d2 == sort_updater([data EXCEPT ![current_index + 1] = e])
              IN /\ data' = d2
                 /\ current_index' = IndexOfId(d2, e.id)
                 /\ file' = IF wrote THEN d2 ELSE file
                 /\ outcome' = IF wrote THEN "ok" ELSE "write_failed"
                 /\ entry' = e
    /\ fields' = F
    /\ url_widgets' = U
    /\ tag_buttons' = T
    /\ message' = ""
    /\ lastOp' = op
    /\ old_index' = current_index
    /\ ops' = ops + 1
    /\ UNCHANGED <<thumbnails, window_open>>

Ready == window_open /\ ops < MaxOps

\* texts the user types into the editable basic fields
EditTexts(f) ==
    IF f = "id" THEN {S_b, S_empty}
    ELSE IF f = "title" THEN {S_Zeta}
    ELSE IF f = "authors" THEN {S_Al_Abe}
    ELSE {}

\* the URL inputs the user types into, and the tag buttons the user clicks
EditedUrls == {"code"}
ClickedTags == {S_Misc}

\* textChanged of a basic field or the abstract -> auto_save (lines 197, 216)
edit_field ==
    /\ Ready
    /\ \E f \in FieldNames \ {"publication_date"} : \E text \in EditTexts(f) :
         /\ text # fields[f]
         /\ auto_save("edit_field", [fields EXCEPT ![f] = text], url_widgets, tag_buttons)

\* update_automatic_tags (lines 320-339)
update_automatic_tags(U, T) ==
    ((T \ {S_Project, S_Code, S_Video})
        \cup (IF Strip(U["project_page"]) # <<>> THEN {S_Project} ELSE {})
        \cup (IF Strip(U["code"]) # <<>> THEN {S_Code} ELSE {})
        \cup (IF Strip(U["video"]) # <<>> THEN {S_Video} ELSE {}))

\* textChanged of a URL input -> handle_url_change (lines 303-305)
handle_url_change ==
    /\ Ready
    /\ \E f \in EditedUrls : \E text \in {S_u, S_empty} :
         /\ text # url_widgets[f]
         /\ LET U == [url_widgets EXCEPT ![f] = text]
            IN auto_save("handle_url_change", fields, U, update_automatic_tags(U, tag_buttons))

\* a tag button clicked -> update_tags (lines 314-318)
update_tags ==
    /\ Ready
    /\ \E tag \in ClickedTags :
         auto_save("update_tags", fields, url_widgets,
                   IF tag \in tag_buttons THEN tag_buttons \ {tag} ELSE tag_buttons \cup {tag})

\* auto_save called with the widgets as show_current_entry left them
save ==
    /\ Ready
    /\ auto_save("auto_save", fields, url_widgets, tag_buttons)

\* a handler that starts with self.data[self.current_index] while the index
\* is out of range raises IndexError
index_error ==
    /\ Ready
    /\ ~InRange(data, current_index)
    /\ Terminate("index_error")

\* navigation: the index moves and the record is displayed
GoTo(op, i) ==
    /\ current_index' = i
    /\ Show(data, i)
    /\ entry' = At(data, i)
    /\ lastOp' = op
    /\ outcome' = "ok"
    /\ message' = ""
    /\ old_index' = current_index
    /\ ops' = ops + 1
    /\ UNCHANGED <<file, thumbnails, data, window_open>>

\* a handler that returns without doing anything
Nothing(op, how) ==
    /\ lastOp' = op
    /\ outcome' = how
    /\ message' = ""
    /\ old_index' = current_index
    /\ ops' = ops + 1
    /\ UNCHANGED <<file, thumbnails, data, current_index, fields,
                   url_widgets, tag_buttons, window_open, entry>>

prev_entry ==
    /\ Ready
    /\ IF current_index > 0 THEN GoTo("prev_entry", current_index - 1)
       ELSE Nothing("prev_entry", "ok")

next_entry ==
    /\ Ready
    /\ IF current_index < Len(data) - 1 THEN GoTo("next_entry", current_index + 1)
       ELSE Nothing("next_entry", "ok")

\* go_to_page with an integer typed into page_input
go_to_page ==
    /\ Ready
    /\ \E page \in 0..(Len(data) + 1) :
         IF 1 <= page /\ page <= Len(data) THEN GoTo("go_to_page", page - 1)
         ELSE Nothing("go_to_page", "ok")

\* `term in text` on str
Contains(term, text) ==
    \E i \in 0..(Len(text) - Len(term)) : SubSeq(text, i + 1, i + Len(term)) = term

\* entry.get(field, '') or ''   (titles and authors are str or None)
SearchText(v) == IF v.t \in {"absent", "none"} THEN S_empty ELSE v.s

\* lines 384-394: whether the record matches the search term
Matches(term, e) ==
    \/ Contains(term, Lower(SearchText(e.title)))
    \/ Contains(term, Lower(SearchText(e.authors)))
    \/ \E tag \in TagSet(e.tags) : Contains(term, Lower(tag))

\* texts the user types into search_input
SearchTerms == {S_empty, S_a, S_m}

\* search_entry (lines 378-412)
search_entry ==
    /\ Ready
    /\ \E text \in SearchTerms :
         LET search_term == Lower(text)
             search_results == {i \in 0..(Len(data) - 1) : Matches(search_term, At(data, i))}
             later == {i \in search_results : i > current_index}
             first == CHOOSE i \in search_results : \A j \in search_results : i <= j
         IN IF search_term = <<>> THEN Nothing("search_entry", "ok")
            ELSE IF search_results = {} THEN Nothing("search_entry", "no_match")
            ELSE IF current_index \in search_results /\ later # {}
                 THEN GoTo("search_entry", CHOOSE i \in later : \A j \in later : i <= j)
            ELSE GoTo("search_entry", first)

\* f"{entry['id']}": the thumbnail's file name
IdText(v) == IF v.t = "none" THEN <<78, 111, 110, 101>> ELSE v.s

\* del self.data[self.current_index]
Remove(d, i) == SubSeq(d, 1, i) \o SubSeq(d, i + 2, Len(d))

\* lines 468-469
Clamp(i, n) == IF i >= n THEN n - 1 ELSE i

\* delete_current_entry (lines 442-477).  answer: the confirmation box;
\* unlink_ok, wrote: whether unlink() and the rewrite of the file succeed.
delete_current_entry ==
    /\ Ready
    /\ InRange(data, current_index)
    /\ LET e == At(data, current_index)
           name == IdText(e.id)
           d1 == Remove(data, current_index)
           ni == Clamp(current_index, Len(d1))
       IN \E how \in {"declined", "ok", "write_failed"}
                     \cup (IF name \in thumbnails THEN {"unlink_failed"} ELSE {}) :
            IF how = "declined" THEN Nothing("delete_current_entry", "declined")
            ELSE /\ lastOp' = "delete_current_entry"
                 /\ outcome' = how
                 /\ old_index' = current_index
                 /\ ops' = ops + 1
                 /\ IF how = "unlink_failed"
                    THEN \* thumbnail_path.unlink() raises: caught at line 476
                         /\ message' = "critical"
                         /\ entry' = e
                         /\ UNCHANGED <<file, thumbnails, data, current_index, fields,
                                        url_widgets, tag_buttons, window_open>>
                    ELSE /\ thumbnails' = thumbnails \ {name}
                         /\ data' = d1
                         /\ IF how = "ok"
                            THEN /\ file' = d1
                                 /\ message' = ""
                                 /\ current_index' = ni
                                 /\ IF d1 # <<>>
                                    THEN /\ Show(d1, ni)
                                         /\ entry' = At(d1, ni)
                                         /\ window_open' = TRUE
                                    ELSE \* self.close()
                                         /\ window_open' = FALSE
                                         /\ entry' = e
                                         /\ UNCHANGED <<fields, url_widgets, tag_buttons>>
                            ELSE \* the rewrite raises: caught at line 476
                                 /\ message' = "critical"
                                 /\ entry' = e
                                 /\ UNCHANGED <<file, current_index, fields, url_widgets,
                                                tag_buttons, window_open>>

\* ArxivAddDialog (src/components/dialogs.py is not in the sources): an
\* accepted dialog has appended the new record to the file.
dialog_append(f, new) == Append(f, new)

\* current_data[0] taken for the newest entry
NewestEntry_first(cur) == cur[1]

\* current_data[-1]
NewestEntry(cur) == cur[Len(cur)]

\* show_arxiv_dialog (lines 505-549)
show_arxiv_dialog ==
    /\ Ready
    /\ \E accepted \in BOOLEAN :
         IF ~accepted THEN Nothing("show_arxiv_dialog", "declined")
         ELSE /\ Len(file) < MaxLen
              /\ \E new \in NewPool, pp \in PaperResults :
                   /\ new.id \notin Ids(file)
                   /\ LET current_data == dialog_append(file, new)
                          new_entry == NewestEntry(current_data)
                          upd == process_paper(new_entry, pp.success, pp.date, pp.source)
                          f2 == IF pp.success
                                THEN sort_updater([current_data EXCEPT ![Len(current_data)] = upd])
                                ELSE current_data
                          d2 == sort_editor(f2)
                          found == IndexOfId(d2, new_entry.id)
                          ni == IF found = -1 THEN 0 ELSE found
                      IN /\ file' = f2
                         /\ data' = d2
                         /\ current_index' = ni
                         /\ Show(d2, ni)
                         /\ entry' = new_entry
                         /\ outcome' = IF pp.success THEN "ok" ELSE "paper_failed"
              /\ lastOp' = "show_arxiv_dialog"
              /\ message' = ""
              /\ old_index' = current_index
              /\ ops' = ops + 1
              /\ UNCHANGED <<thumbnails, window_open>>

\* `if old_id:` -- None and '' are falsy
Truthy(v) == v.t \notin {"none", "absent"} /\ v.s # <<>>

\* refresh_ui (lines 484-503)
refresh_ui ==
    /\ Ready
    /\ data # <<>> => InRange(data, current_index)
    /\ LET old_id == IF data # <<>> THEN At(data, current_index).id ELSE None
           d2 == sort_editor(file)
           found == IndexOfId(d2, old_id)
           ni == IF Truthy(old_id) THEN (IF found = -1 THEN 0 ELSE found)
                 ELSE current_index
       IN IF ~InRange(d2, ni) THEN Terminate("index_error")
          ELSE /\ data' = d2
               /\ current_index' = ni
               /\ Show(d2, ni)
               /\ entry' = At(d2, ni)
               /\ lastOp' = "refresh_ui"
               /\ outcome' = "ok"
               /\ message' = ""
               /\ old_index' = current_index
               /\ ops' = ops + 1
               /\ UNCHANGED <<file, thumbnails, window_open>>

Next ==
    \/ edit_field
    \/ handle_url_change
    \/ update_tags
    \/ save
    \/ prev_entry
    \/ next_entry
    \/ go_to_page
    \/ search_entry
    \/ delete_current_entry
    \/ show_arxiv_dialog
    \/ refresh_ui
    \/ index_error

Spec == Init /\ [][Next]_vars

\* ---------------------------------------------------------------- claims
\* the handlers that end in auto_save
SaveOps == {"auto_save", "edit_field", "handle_url_change", "update_tags"}

\* C1: after an auto_save that succeeded on a list with unique ids,
\* current_index is the position, in the re-sorted list, of the record that
\* was being edited.
IdentityTracked ==
    (lastOp \in SaveOps /\ outcome = "ok" /\ UniqueIds(data))
        => (InRange(data, current_index) /\ At(data, current_index) = entry)

\* C1 witness: a successful save whose re-sort moved the edited record.
IdentityTrackedWitness ==
    /\ lastOp \in SaveOps
    /\ outcome = "ok"
    /\ UniqueIds(data)
    /\ Len(data) >= 2
    /\ current_index # old_index
    /\ At(data, current_index) = entry

\* C2: after a mutating operation that completed (no storage error), the
\* records in memory are the records of the file, in the same order.
MemoryDiskAgree ==
    (lastOp \in SaveOps \cup {"delete_current_entry", "show_arxiv_dialog"}
        /\ outcome \in {"ok", "paper_failed"})
        => data = file

\* C3: a confirmed delete at index i of n records removes exactly that
\* record and leaves current_index = min(i, n - 2) when n > 1; when n = 1
\* the list is empty and the window closes.
DeleteClamps ==
    [][(lastOp' = "delete_current_entry" /\ outcome' # "declined")
        => /\ data' = Remove(data, current_index)
           /\ Len(data) > 1 =>
                /\ window_open'
                /\ current_index' = (IF current_index < Len(data) - 2
                                     THEN current_index ELSE Len(data) - 2)
           /\ Len(data) = 1 => ~window_open']_vars

HasStrDate(r) == r.publication_date.t = "str"
Loaded == lastOp \in {"load_yaml", "refresh_ui"}

\* C4: after load_yaml has sorted the list, no record without a string
\* publication_date stands before a record that has one.
MissingDateLast ==
    Loaded => \A i, j \in 1..Len(data) :
                (i < j /\ HasStrDate(data[j])) => HasStrDate(data[i])

\* C5: after load_yaml has sorted the list, among records with equal date
\* keys the one with the lower source priority value comes first.
ArxivFirst ==
    Loaded => \A i, j \in 1..Len(data) :
                (i < j /\ safe_sort_key(data[i])[1] = safe_sort_key(data[j])[1])
                    => safe_sort_key(data[i])[2] <= safe_sort_key(data[j])[2]

\* C6: field edits, tag toggles, URL changes, saves, navigation and reload
\* leave the set of ids of the records in the list as it was.
IdsStable ==
    [][(lastOp' \in SaveOps \cup {"prev_entry", "next_entry", "go_to_page", "refresh_ui"}
            /\ outcome' = "ok")
        => Ids(data') = Ids(data)]_vars

\* C7: in a confirmed delete, a failure to remove the thumbnail shows no
\* error, and the record is still removed and the file rewritten.
ThumbnailFailureIgnored ==
    [][(lastOp' = "delete_current_entry" /\ outcome' = "unlink_failed")
        => /\ message' = ""
           /\ data' = Remove(data, current_index)
           /\ file' = data']_vars

\* C8: safe_sort_key uses "9999" for a missing or non-string date, "z" for
\* missing or unparseable authors and "z" for a missing or non-string title.
SentinelsUsed ==
    \A i \in 1..Len(data) :
        LET r == data[i]
            k == safe_sort_key(r)
        IN /\ r.publication_date.t # "str" => k[1] = S_9999
           /\ (r.authors.t # "str" \/ Strip(BeforeComma(r.authors.s)) = <<>>) => k[3] = S_z
           /\ r.title.t # "str" => k[4] = S_z

\* same record content: same values key by key, a key holding None counting
\* as an absent key, and the same set of tags
Blank(v) == v.t \in {"absent", "none"}
SameContent(r1, r2) ==
    /\ \A k \in FieldNames \cup UrlNames \cup {"date_source"} :
          r1[k] = r2[k] \/ (Blank(r1[k]) /\ Blank(r2[k]))
    /\ TagSet(r1.tags) = TagSet(r2.tags)

Displayed ==
    /\ InRange(data, current_index)
    /\ fields = shown_fields(At(data, current_index))
    /\ url_widgets = shown_urls(At(data, current_index))
    /\ tag_buttons = shown_tags(At(data, current_index))

\* C9: auto_save right after the record was displayed, with no change made,
\* writes a file with the content of the list sorted once by the policy.
SaveIdempotent ==
    [][(lastOp' = "auto_save" /\ outcome' = "ok" /\ Displayed)
        => LET once == sort_editor(data)
           IN /\ Len(file') = Len(once)
              /\ \A i \in 1..Len(once) : SameContent(file'[i], once[i])]_vars

\* C10: after an accepted add dialog, whether process_paper succeeds or
\* fails, the record the dialog appended is in the list at current_index,
\* unmodified when process_paper failed.
AddKeepsRecord ==
    [][(lastOp' = "show_arxiv_dialog" /\ outcome' # "declined")
        => \E new \in NewPool :
             /\ new.id \notin Ids(file)
             /\ InRange(data', current_index')
             /\ At(data', current_index').id = new.id
             /\ outcome' = "paper_failed" => At(data', current_index') = new
             /\ \A k \in DOMAIN new \ {"publication_date", "date_source"} :
                   At(data', current_index')[k] = new[k]]_vars

\* C10 witness: process_paper failed and the appended record is displayed
\* among older records.
AddKeepsRecordWitness ==
    /\ lastOp = "show_arxiv_dialog"
    /\ outcome = "paper_failed"
    /\ Len(data) >= 2
    /\ At(data, current_index) \in NewPool
    /\ fields = shown_fields(At(data, current_index))

\* C11: while the window is open and the list is not empty, current_index
\* is a valid index of the list.
IndexInBounds ==
    (window_open /\ data # <<>>) => InRange(data, current_index)

====
